---- MODULE Spec2Model ----
(***************************************************************************)
(* A model of app.py, the TataCliq product extractor: the retry helper     *)
(* safe_get, the size-guide reconciliation get_size_guide, the row         *)
(* assembly extract_product, and the "Start Extraction" batch loop that    *)
(* runs extract_product on a thread pool and collects the rows.            *)
(*                                                                         *)
(* Python values (str, int, bool, None, list, dict) are tagged records, so *)
(* that values of different Python types can sit in one row or document.   *)
(* Python strings are TLA+ strings; dict keys are strings.                 *)
(***************************************************************************)
EXTENDS Integers, Sequences, FiniteSets, TLC

\* ------------------------------------------------------------------------
\* Python values
\* ------------------------------------------------------------------------
None == [null |-> TRUE]
JStr(s) == [str |-> s]
JNum(n) == [num |-> n]
JBool(b) == [bool |-> b]
JList(l) == [list |-> l]
JObj(f) == [obj |-> f]

IsNone(v) == DOMAIN v = {"null"}
IsStr(v) == DOMAIN v = {"str"}
IsNum(v) == DOMAIN v = {"num"}
IsBool(v) == DOMAIN v = {"bool"}
IsList(v) == DOMAIN v = {"list"}
IsObj(v) == DOMAIN v = {"obj"}

\* What json.loads / Response.json() gives for a text that is not JSON: it raises.
Malformed == [malformed |-> TRUE]

\* str(e) of the JSONDecodeError raised then.
JsonErrorText == "Expecting value: line 1 column 1 (char 0)"

\* The empty dict {} (a function with no keys).
EmptyDict == <<>>

\* Python truth value: None, "", 0, False, [] and {} are false.
Truthy(v) ==
    CASE IsNone(v) -> FALSE
      [] IsStr(v) -> v.str # ""
      [] IsNum(v) -> v.num # 0
      [] IsBool(v) -> v.bool
      [] IsList(v) -> Len(v.list) > 0
      [] IsObj(v) -> DOMAIN v.obj # {}

\* dict.get(k, default) on a dict v.
GetOr(v, k, default) == IF k \in DOMAIN v.obj THEN v.obj[k] ELSE default

\* dict.get(k) on a dict v.
Get(v, k) == GetOr(v, k, None)

\* d[k] = x on a dict d (a function from keys to values).
SetItem(d, k, x) == [c \in (DOMAIN d) \cup {k} |-> IF c = k THEN x ELSE d[c]]

\* d.update(e): the keys of e win.
Update(d, e) == [c \in (DOMAIN d) \cup (DOMAIN e) |-> IF c \in DOMAIN e THEN e[c] ELSE d[c]]

\* A set of strings as a sequence, in some fixed order.
RECURSIVE SetToSeq(_)
SetToSeq(S) == IF S = {} THEN <<>> ELSE LET k == CHOOSE k \in S : TRUE IN <<k>> \o SetToSeq(S \ {k})

\* "for x in v" cannot start: v is None, a number or a bool (TypeError).
NotIterable(v) == IsNone(v) \/ IsNum(v) \/ IsBool(v)

\* The items "for x in v" visits: a list's elements, a str's characters, a dict's keys.
Items(v) ==
    CASE IsList(v) -> v.list
      [] IsStr(v) -> [i \in 1..Len(v.str) |-> JStr(SubSeq(v.str, i, i))]
      [] IsObj(v) -> LET ks == SetToSeq(DOMAIN v.obj) IN [i \in 1..Len(ks) |-> JStr(ks[i])]
      [] OTHER -> <<>>

\* str(e) of the exception v[k] raises, "" when it raises none.
IndexError(v, k) ==
    IF IsObj(v)
    THEN IF k \in DOMAIN v.obj THEN "" ELSE "'" \o k \o "'"
    ELSE "TypeError: indices must be integers, or object is not subscriptable"

\* ------------------------------------------------------------------------
\* Python string methods
\* ------------------------------------------------------------------------
\* The positions at which sub occurs in s.
Occurrences(s, sub) == {i \in 1..(Len(s) - Len(sub) + 1) : SubSeq(s, i, i + Len(sub) - 1) = sub}

\* sub in s
Contains(s, sub) == Occurrences(s, sub) # {}

\* s.strip(), whitespace being the space character
Strip(s) ==
    LET idx == {i \in 1..Len(s) : SubSeq(s, i, i) # " "} IN
    IF idx = {} THEN ""
    ELSE SubSeq(s, CHOOSE i \in idx : \A j \in idx : i <= j, CHOOSE i \in idx : \A j \in idx : j <= i)

\* s.split(sep)[-1]: what follows the last occurrence of sep, all of s when there is none.
SplitLast(s, sep) ==
    LET occ == Occurrences(s, sep) IN
    IF occ = {} THEN s
    ELSE SubSeq(s, (CHOOSE i \in occ : \A j \in occ : j <= i) + Len(sep), Len(s))

\* ------------------------------------------------------------------------
\* Size guide (format_size_header, get_size_guide)
\* ------------------------------------------------------------------------
format_size_header(raw_dim, unit) ==
    IF unit # ""
    THEN raw_dim \o " ( " \o (IF unit \in {"in", "In", "iN", "IN"} THEN "Inches" ELSE unit) \o " )"
    ELSE raw_dim

\* The accumulator of get_size_guide's loops: unit_data, main_size and the
\* text of the first exception raised ("" while none).
SGStart == [unit_data |-> EmptyDict, main_size |-> <<>>, err |-> ""]

SGRaise(acc, text) == [acc EXCEPT !.err = text]

\* One pass of "for dim in size_name['dimensionList']" for the unit.
SGDimension(acc, unit, dim) ==
    IF acc.err # "" THEN acc
    ELSE IF IndexError(dim, "dimension") # "" THEN SGRaise(acc, IndexError(dim, "dimension"))
    ELSE IF IndexError(dim, "dimensionValue") # "" THEN SGRaise(acc, IndexError(dim, "dimensionValue"))
    ELSE LET d == dim.obj["dimension"].str
             v == dim.obj["dimensionValue"]
             table == acc.unit_data[unit]
             series == IF d \in DOMAIN table THEN table[d] ELSE <<>>
         IN [acc EXCEPT !.unit_data = SetItem(acc.unit_data, unit, SetItem(table, d, Append(series, v)))]

RECURSIVE SGDimensions(_, _, _)
SGDimensions(acc, unit, dims) ==
    IF dims = <<>> THEN acc
    ELSE SGDimensions(SGDimension(acc, unit, Head(dims)), unit, Tail(dims))

\* One pass of "for size_name in size_map['sizeGuideList']".
SGSize(acc, unit, size_name) ==
    IF acc.err # "" THEN acc
    ELSE IF IndexError(size_name, "dimensionSize") # "" THEN SGRaise(acc, IndexError(size_name, "dimensionSize"))
    ELSE LET size == size_name.obj["dimensionSize"]
             seen == \E i \in 1..Len(acc.main_size) : acc.main_size[i] = size
             acc1 == IF seen THEN acc ELSE [acc EXCEPT !.main_size = Append(acc.main_size, size)]
         IN IF IndexError(size_name, "dimensionList") # "" THEN SGRaise(acc1, IndexError(size_name, "dimensionList"))
            ELSE IF NotIterable(size_name.obj["dimensionList"]) THEN SGRaise(acc1, "TypeError: object is not iterable")
            ELSE SGDimensions(acc1, unit, Items(size_name.obj["dimensionList"]))

RECURSIVE SGSizes(_, _, _)
SGSizes(acc, unit, sizes) ==
    IF sizes = <<>> THEN acc
    ELSE SGSizes(SGSize(acc, unit, Head(sizes)), unit, Tail(sizes))

\* One pass of "for size_map in js['sizeGuideTabularWsData']['unitList']".
SGUnit(acc, size_map) ==
    IF acc.err # "" THEN acc
    ELSE IF IndexError(size_map, "displaytext") # "" THEN SGRaise(acc, IndexError(size_map, "displaytext"))
    ELSE LET unit == size_map.obj["displaytext"].str
             acc1 == IF unit \in DOMAIN acc.unit_data THEN acc
                     ELSE [acc EXCEPT !.unit_data = SetItem(acc.unit_data, unit, EmptyDict)]
         IN IF IndexError(size_map, "sizeGuideList") # "" THEN SGRaise(acc1, IndexError(size_map, "sizeGuideList"))
            ELSE IF NotIterable(size_map.obj["sizeGuideList"]) THEN SGRaise(acc1, "TypeError: object is not iterable")
            ELSE SGSizes(acc1, unit, Items(size_map.obj["sizeGuideList"]))

RECURSIVE SGUnits(_, _)
SGUnits(acc, units) ==
    IF units = <<>> THEN acc
    ELSE SGUnits(SGUnit(acc, Head(units)), Tail(units))

\* unit_data.get(unit, {})
UnitTable(unit_data, unit) == IF unit \in DOMAIN unit_data THEN unit_data[unit] ELSE EmptyDict

\* unit_data.get(unit, {}).get(dim): the series as a list, or None.
UnitSeries(unit_data, unit, dim) ==
    LET table == UnitTable(unit_data, unit) IN
    IF dim \in DOMAIN table THEN JList(table[dim]) ELSE None

\* A reconciliation that labels the inch column with the centimeter series.
ReconcileSwapped(unit_data, dim) ==
    LET cm == UnitSeries(unit_data, "Cm", dim)
        inch == UnitSeries(unit_data, "In", dim)
    IN IF cm = inch
       THEN format_size_header(dim, "") :> cm
       ELSE (IF Truthy(cm) THEN format_size_header(dim, "Cm") :> cm ELSE EmptyDict)
            @@ (IF Truthy(inch) THEN format_size_header(dim, "In") :> cm ELSE EmptyDict)

\* The columns the reconciliation emits for one dimension.
Reconcile(unit_data, dim) ==
    LET cm == UnitSeries(unit_data, "Cm", dim)
        inch == UnitSeries(unit_data, "In", dim)
    IN IF cm = inch
       THEN format_size_header(dim, "") :> cm
       ELSE (IF Truthy(cm) THEN format_size_header(dim, "Cm") :> cm ELSE EmptyDict)
            @@ (IF Truthy(inch) THEN format_size_header(dim, "In") :> inch ELSE EmptyDict)

RECURSIVE ReconcileAll(_, _, _)
ReconcileAll(final, unit_data, dims) ==
    IF dims = <<>> THEN final
    ELSE ReconcileAll(Update(final, Reconcile(unit_data, Head(dims))), unit_data, Tail(dims))

\* get_size_guide once the response is in hand: [err |-> the text of the
\* exception raised ("" for none), final |-> the table returned].
get_size_guide(res) ==
    IF res.json = Malformed THEN [err |-> JsonErrorText, final |-> EmptyDict]
    ELSE LET js == res.json IN
    IF IndexError(js, "sizeGuideTabularWsData") # ""
    THEN [err |-> IndexError(js, "sizeGuideTabularWsData"), final |-> EmptyDict]
    ELSE IF IndexError(js.obj["sizeGuideTabularWsData"], "unitList") # ""
    THEN [err |-> IndexError(js.obj["sizeGuideTabularWsData"], "unitList"), final |-> EmptyDict]
    ELSE IF NotIterable(js.obj["sizeGuideTabularWsData"].obj["unitList"])
    THEN [err |-> "TypeError: object is not iterable", final |-> EmptyDict]
    ELSE LET acc == SGUnits(SGStart, Items(js.obj["sizeGuideTabularWsData"].obj["unitList"]))
             dims == (DOMAIN UnitTable(acc.unit_data, "Cm")) \cup (DOMAIN UnitTable(acc.unit_data, "In"))
             final0 == "Brand Size" :> JList(acc.main_size)
             final1 == ReconcileAll(final0, acc.unit_data, SetToSeq(dims))
         IN IF acc.err # "" THEN [err |-> acc.err, final |-> EmptyDict]
            ELSE [err |-> "", final |-> SetItem(final1, "measurement_image", Get(js, "imageURL"))]

\* ------------------------------------------------------------------------
\* Product extraction (extract_product)
\* ------------------------------------------------------------------------
\* The product identifier extract_product derives from the stripped input.
ProductId(raw_input) ==
    IF Contains(raw_input, "tatacliq.com")
    THEN Strip(SplitLast(raw_input, "/p-"))
    ELSE Strip(raw_input)

ApiUrl(product_id) ==
    "https://www.tatacliq.com/marketplacewebservices/v2/mpl/products/productDetails/"
        \o product_id \o "?isPwa=true&isMDE=true&isDynamicVar=true"

\* The row on the "Empty input" return.
EmptyInputRow(input_value) ==
    ("Input" :> JStr(input_value)) @@ ("Error" :> JStr("Empty input"))

\* data before the product-detail fetch.
InitialRow(input_value, product_id) ==
    ("Input" :> JStr(input_value)) @@ ("product_id" :> JStr(product_id))
        @@ ("api_url" :> JStr(ApiUrl(product_id)))

\* The row of a failure: blocked, with the error text.
ErrorRow(data, text) == SetItem(SetItem(data, "blocked", JBool(TRUE)), "Error", JStr(text))

\* The flattening state: the row so far and the text of the exception
\* raised ("" while none); an exception ends the flattening.
Raise(st, text) == [st EXCEPT !.exc = text]

Put(st, k, v) == [st EXCEPT !.data = SetItem(st.data, k, v)]

\* blocked, Error and the five top-level fields.
CoreFields(st, j) ==
    IF st.exc # "" THEN st
    ELSE IF ~IsObj(j) THEN Raise(st, "AttributeError: object has no attribute 'get'")
    ELSE [st EXCEPT !.data =
            Update(st.data,
                ("blocked" :> JBool(FALSE)) @@ ("Error" :> JStr(""))
                @@ ("productTitle" :> Get(j, "productTitle"))
                @@ ("brandName" :> Get(j, "brandName"))
                @@ ("productDescription" :> Get(j, "productDescription"))
                @@ ("productColor" :> Get(j, "productColor"))
                @@ ("styleNote" :> Get(j, "styleNote")))]

\* if json_data.get(field): data[column] = json_data[field].get("value")
PriceField(st, j, field, column) ==
    IF st.exc # "" THEN st
    ELSE IF ~Truthy(Get(j, field)) THEN st
    ELSE IF ~IsObj(Get(j, field)) THEN Raise(st, "AttributeError: object has no attribute 'get'")
    ELSE Put(st, column, Get(Get(j, field), "value"))

Pricing(st, j) ==
    LET st1 == PriceField(st, j, "mrpPrice", "MRP")
        st2 == PriceField(st1, j, "winningSellerPrice", "Price")
    IN IF st2.exc # "" THEN st2
       ELSE IF Get(j, "discount") # None THEN Put(st2, "Discount", Get(j, "discount"))
       ELSE st2

RECURSIVE BreadcrumbLoop(_, _, _)
BreadcrumbLoop(st, cs, i) ==
    IF st.exc # "" \/ i > Len(cs) THEN st
    ELSE IF ~IsObj(cs[i]) THEN Raise(st, "AttributeError: object has no attribute 'get'")
    ELSE BreadcrumbLoop(Put(st, "Breadcrum_" \o ToString(i), Get(cs[i], "category_name")), cs, i + 1)

Breadcrumbs(st, j) ==
    IF st.exc # "" THEN st
    ELSE LET v == GetOr(j, "categoryHierarchy", JList(<<>>)) IN
         IF NotIterable(v) THEN Raise(st, "TypeError: object is not iterable")
         ELSE BreadcrumbLoop(st, Items(v), 1)

RECURSIVE DetailLoop(_, _, _)
DetailLoop(st, ds, i) ==
    IF st.exc # "" \/ i > Len(ds) THEN st
    ELSE IF ~IsObj(ds[i]) THEN Raise(st, "AttributeError: object has no attribute 'get'")
    ELSE LET k == Get(ds[i], "key")
             v == Get(ds[i], "value")
         IN IF ~Truthy(k) THEN DetailLoop(st, ds, i + 1)
            ELSE IF IsList(k) \/ IsObj(k) THEN Raise(st, "TypeError: unhashable type")
            ELSE DetailLoop(Put(st, k.str, v), ds, i + 1)

Details(st, j) ==
    IF st.exc # "" THEN st
    ELSE LET v == GetOr(j, "details", JList(<<>>)) IN
         IF NotIterable(v) THEN Raise(st, "TypeError: object is not iterable")
         ELSE DetailLoop(st, Items(v), 1)

\* The inner loop over one gallery's images: [imgs, exc].
RECURSIVE GalleryImages(_, _, _)
GalleryImages(acc, ks, i) ==
    IF acc.exc # "" \/ i > Len(ks) THEN acc
    ELSE IF ~IsObj(ks[i]) THEN [acc EXCEPT !.exc = "AttributeError: object has no attribute 'get'"]
    ELSE IF Get(ks[i], "key") # JStr("superZoom") THEN GalleryImages(acc, ks, i + 1)
    ELSE LET val == GetOr(ks[i], "value", JStr("")) IN
         IF ~Truthy(val) THEN GalleryImages(acc, ks, i + 1)
         ELSE IF ~IsStr(val) THEN [acc EXCEPT !.exc = "TypeError: can only concatenate str to str"]
         ELSE GalleryImages([acc EXCEPT !.imgs = Append(acc.imgs, "https:" \o val.str)], ks, i + 1)

RECURSIVE GalleryLoop(_, _, _)
GalleryLoop(acc, gs, i) ==
    IF acc.exc # "" \/ i > Len(gs) THEN acc
    ELSE IF ~IsObj(gs[i]) THEN [acc EXCEPT !.exc = "AttributeError: object has no attribute 'get'"]
    ELSE LET v == GetOr(gs[i], "galleryImages", JList(<<>>)) IN
         IF NotIterable(v) THEN [acc EXCEPT !.exc = "TypeError: object is not iterable"]
         ELSE GalleryLoop(GalleryImages(acc, Items(v), 1), gs, i + 1)

RECURSIVE ImageColumns(_, _, _)
ImageColumns(st, imgs, i) ==
    IF i > Len(imgs) THEN st
    ELSE ImageColumns(Put(st, "image_" \o ToString(i), JStr(imgs[i])), imgs, i + 1)

Images(st, j) ==
    IF st.exc # "" THEN st
    ELSE LET v == GetOr(j, "galleryImagesList", JList(<<>>)) IN
         IF NotIterable(v) THEN Raise(st, "TypeError: object is not iterable")
         ELSE LET acc == GalleryLoop([imgs |-> <<>>, exc |-> ""], Items(v), 1) IN
              IF acc.exc # "" THEN Raise(st, acc.exc)
              ELSE ImageColumns(st, acc.imgs, 1)

\* data[k] = v[0]["value"] if isinstance(v, list) else v
MfgEntry(st, k, v) ==
    IF st.exc # "" THEN st
    ELSE IF ~IsList(v) THEN Put(st, k, v)
    ELSE IF v.list = <<>> THEN Raise(st, "IndexError: list index out of range")
    ELSE IF IndexError(v.list[1], "value") # "" THEN Raise(st, IndexError(v.list[1], "value"))
    ELSE Put(st, k, v.list[1].obj["value"])

RECURSIVE MfgLoop(_, _, _)
MfgLoop(st, m, ks) ==
    IF ks = <<>> THEN st
    ELSE MfgLoop(MfgEntry(st, Head(ks), m.obj[Head(ks)]), m, Tail(ks))

MfgDetails(st, j) ==
    IF st.exc # "" THEN st
    ELSE LET m == Get(j, "mfgDetails") IN
         IF ~Truthy(m) THEN st
         ELSE IF ~IsObj(m) THEN Raise(st, "AttributeError: object has no attribute 'items'")
         ELSE MfgLoop(st, m, SetToSeq(DOMAIN m.obj))

\* The normal extraction up to the size-guide step: [data, exc].
NormalExtraction(data, j) ==
    MfgDetails(Images(Details(Breadcrumbs(Pricing(CoreFields([data |-> data, exc |-> ""], j), j), j), j), j), j)

\* Whether the size-guide step runs: if json_data.get("sizeGuideId")
HasSizeGuide(j) == Truthy(Get(j, "sizeGuideId"))

\* The number of characters of the response kept in Raw_Response_Preview.
PreviewLen == 500

Preview(text) == SubSeq(text, 1, IF Len(text) < PreviewLen THEN Len(text) ELSE PreviewLen)

\* What extract_product makes of the product-detail response before the
\* normal extraction: [error |-> the row of a parse or format failure, or
\* EmptyDict when json_data was obtained, json_data |-> the document].
ParseResponse(data, res) ==
    LET data1 == SetItem(data, "http_status", JNum(res.status_code))
        failed(prefix) == SetItem(ErrorRow(data1, prefix \o JsonErrorText),
                                  "Raw_Response_Preview", JStr(Preview(res.text)))
    IN IF res.braces
       THEN IF res.json = Malformed
            THEN [ok |-> FALSE, data |-> failed("Raw JSON parse failed: "), json_data |-> None]
            ELSE [ok |-> TRUE, data |-> data1, json_data |-> res.json]
       ELSE IF res.p
       THEN IF res.json = Malformed
            THEN [ok |-> FALSE, data |-> failed("<p> JSON parse failed: "), json_data |-> None]
            ELSE [ok |-> TRUE, data |-> data1, json_data |-> res.json]
       ELSE [ok |-> FALSE,
             data |-> SetItem(ErrorRow(data1, "Unexpected response format (not raw JSON, not <p> JSON)"),
                              "Raw_Response_Preview", JStr(Preview(res.text))),
             json_data |-> None]

\* An except branch that fails the row as the product-detail one does.
SizeGuideFailedBlocks(data, text) ==
    SetItem(SetItem(SetItem(data, "SizeGuide_Error", JStr(text)), "blocked", JBool(TRUE)), "Error", JStr(text))

\* The size-guide step's except branch.
SizeGuideFailed(data, text) == SetItem(data, "SizeGuide_Error", JStr(text))

\* The size-guide step's merge: data.update(size_data)
SizeGuideMerged(data, size_data) == Update(data, size_data)

\* ------------------------------------------------------------------------
\* Bounds and inputs
\* ------------------------------------------------------------------------
\* The batch size.
NumItems == 2
\* retry_count ranges over 1..MaxRetry (the UI's minimum is 1).
MaxRetry == 2
\* max_workers ranges over 1..MaxWorkers (the UI's minimum is 1).
MaxWorkers == 2
\* The longest "details" list of a product document.
MaxDetails == 1
\* The number of size entries of a size-guide document, over its units.
MaxEntries == 2

\* str(e) of what requests.get raises.
RequestErrors == {"ConnectTimeout", "ConnectionError"}

\* Sequences over S of length at most n.
RECURSIVE SeqsUpTo(_, _)
SeqsUpTo(S, n) ==
    IF n = 0 THEN {<<>>}
    ELSE LET shorter == SeqsUpTo(S, n - 1) IN
         shorter \cup {Append(q, e) : q \in {r \in shorter : Len(r) = n - 1}, e \in S}

\* The deduplicated, stripped, non-empty inputs of a batch.
BatchInputs == [i \in 1..NumItems |-> "MP" \o ToString(i)]

\* The inputs extract_product is called on directly.
ExtractInputs ==
    {"", " ", " MP1", "tatacliq.com/a/p-MP1", "tatacliq.com/a", "tatacliq.com/a/p-"}

Entry(k, v) == JObj(("key" :> JStr(k)) @@ ("value" :> JStr(v)))

DetailEntries ==
    {Entry("Fabric", "Cotton"), Entry("Fabric", "Silk"), Entry("Input", "x"),
     Entry("Error", "x"), Entry("blocked", "x"), JObj("value" :> JStr("x"))}

MrpOptions ==
    {EmptyDict, "mrpPrice" :> None, "mrpPrice" :> JObj("value" :> JNum(999)),
     "mrpPrice" :> JNum(999)}

CategoryOptions ==
    {EmptyDict, "categoryHierarchy" :> None,
     "categoryHierarchy" :> JList(<<JObj("category_name" :> JStr("Men")), JObj(EmptyDict)>>)}

DetailOptions ==
    {EmptyDict, "details" :> None} \cup {"details" :> JList(l) : l \in SeqsUpTo(DetailEntries, MaxDetails)}

GalleryOptions ==
    {EmptyDict, "galleryImagesList" :> None,
     "galleryImagesList" :> JList(<<JObj("galleryImages" :> JList(<<
         JObj(("key" :> JStr("superZoom")) @@ ("value" :> JStr("//img/1.jpg"))),
         JObj(("key" :> JStr("thumbnail")) @@ ("value" :> JStr("//img/t.jpg"))),
         JObj(("key" :> JStr("superZoom")) @@ ("value" :> JStr("//img/2.jpg")))>>))>>)}

MfgOptions ==
    {EmptyDict,
     "mfgDetails" :> JObj("Country of origin" :> JList(<<JObj("value" :> JStr("India"))>>)),
     "mfgDetails" :> JObj("Country of origin" :> JList(<<>>)),
     "mfgDetails" :> JObj("Input" :> JStr("x"))}

SizeGuideIdOptions == {EmptyDict, "sizeGuideId" :> JStr("SG1")}

\* Product-detail documents: JSON objects whose fields are absent, null,
\* well-formed or of another type.
ProductDocs ==
    {JObj(("productTitle" :> JStr("Shirt")) @@ m @@ c @@ d @@ g @@ f @@ s) :
        m \in MrpOptions, c \in CategoryOptions, d \in DetailOptions,
        g \in GalleryOptions, f \in MfgOptions, s \in SizeGuideIdOptions}

\* A response: the status, whether the stripped body starts with "{" and ends
\* with "}", whether the body holds "<p>", what json.loads gives for the text
\* the code hands it, and that text.
Response(status, braces, p, json, text) ==
    [status_code |-> status, braces |-> braces, p |-> p, json |-> json, text |-> text]

FailedResponses ==
    {Response(200, TRUE, FALSE, Malformed, "{bad}"),
     Response(200, FALSE, TRUE, Malformed, "{bad"),
     Response(403, FALSE, FALSE, Malformed, "Access Denied")}

\* The product-detail responses of the direct calls.
ProductResponses ==
    {Response(200, TRUE, FALSE, d, "{...}") : d \in ProductDocs}
        \cup {Response(200, FALSE, TRUE, JList(<<>>), "[]")}
        \cup FailedResponses

SGDim(d, v) == JObj(("dimension" :> JStr(d)) @@ ("dimensionValue" :> JStr(v)))

SGDimLists ==
    {<<>>, <<SGDim("Chest", "10")>>,
     <<SGDim("Chest", "10"), SGDim("Waist", "4")>>,
     <<SGDim("Chest", "4"), SGDim("Waist", "4")>>}

\* One size entry of one unit, before the entries are grouped by unit.
SGEntries == [unit : {"Cm", "In"}, size : {"S", "M"}, dims : SGDimLists]

SGSizeEntry(e) == JObj(("dimensionSize" :> JStr(e.size)) @@ ("dimensionList" :> JList(e.dims)))

\* The unitList of a sequence of entries: consecutive entries of one unit
\* make one unit map.
RECURSIVE SGGroup(_)
SGGroup(es) ==
    IF es = <<>> THEN <<>>
    ELSE LET rest == SGGroup(Tail(es))
             e == Head(es)
         IN IF rest # <<>> /\ Head(rest).unit = e.unit
            THEN <<[unit |-> e.unit, sizes |-> <<SGSizeEntry(e)>> \o Head(rest).sizes]>> \o Tail(rest)
            ELSE <<[unit |-> e.unit, sizes |-> <<SGSizeEntry(e)>>]>> \o rest

SGUnitList(es) ==
    LET g == SGGroup(es) IN
    [i \in 1..Len(g) |->
        JObj(("displaytext" :> JStr(g[i].unit)) @@ ("sizeGuideList" :> JList(g[i].sizes)))]

SGDoc(es, image) ==
    JObj(("sizeGuideTabularWsData" :> JObj("unitList" :> JList(SGUnitList(es)))) @@ image)

SGResponse(json) == [status_code |-> 200, json |-> json]

\* Size-guide responses that make get_size_guide raise.
SGBadResponses ==
    {SGResponse(Malformed), SGResponse(JObj(EmptyDict)),
     SGResponse(JObj("sizeGuideTabularWsData" :> JObj("unitList" :> None))),
     SGResponse(JObj("sizeGuideTabularWsData" :> JObj("unitList" :> JList(<<JObj(
         ("displaytext" :> JStr("Cm")) @@ ("sizeGuideList" :> JList(<<JObj(
             "dimensionSize" :> JStr("S"))>>)))>>))))}

\* The size-guide responses of the size-guide runs.
SGResponses ==
    {SGResponse(SGDoc(es, image)) : es \in SeqsUpTo(SGEntries, MaxEntries),
        image \in {EmptyDict, "imageURL" :> JStr("//img/measure.jpg")}}
        \cup SGBadResponses

\* The size-guide responses of the other runs.
SGFewResponses ==
    {SGResponse(SGDoc(<<[unit |-> "Cm", size |-> "S", dims |-> <<SGDim("Chest", "10")>>],
                        [unit |-> "In", size |-> "S", dims |-> <<SGDim("Chest", "4")>>]>>,
                      "imageURL" :> JStr("//img/measure.jpg")))}
        \cup SGBadResponses

\* The product document of the size-guide runs.
SGProductDoc == JObj(("productTitle" :> JStr("Shirt")) @@ ("sizeGuideId" :> JStr("SG1")))

\* The product-detail responses of a batch.
BatchResponses ==
    {Response(200, TRUE, FALSE, JObj("productTitle" :> JStr("Shirt")), "{...}"),
     Response(200, FALSE, TRUE, SGProductDoc, "{...}"),
     Response(200, TRUE, FALSE, JObj(("productTitle" :> JStr("Shirt")) @@ ("details" :> None)), "{...}"),
     Response(403, FALSE, FALSE, Malformed, "Access Denied")}

\* ------------------------------------------------------------------------
\* State
\* ------------------------------------------------------------------------
VARIABLES
    stop_event,     \* threading.Event: set by request_stop
    retry_count,    \* the "Retry count" input
    max_workers,    \* the "Threads" input
    inputs,         \* the inputs, one task each
    tasks,          \* each extract_product call: its position and locals
    main,           \* the position of the script's thread
    results,        \* the rows the as_completed loop collected
    yielded,        \* the futures as_completed has yielded
    stop_pending    \* history: the tasks unfinished when the stop flag was set

vars == <<stop_event, retry_count, max_workers, inputs, tasks, main, results, yielded, stop_pending>>

Tasks == 1..Len(inputs)

\* One safe_get call's history: the requests issued, those that raised, and how it ended.
NoCall == [nreq |-> 0, nfail |-> 0, outcome |-> "none", text |-> ""]

\* A submitted task that no worker has picked up.
QueuedTask ==
    [pc |-> "queued", call |-> "none", attempt |-> 0, last_err |-> "None",
     data |-> EmptyDict, base |-> EmptyDict, sg_res |-> None, size_data |-> EmptyDict,
     sg_error |-> "", exc |-> "", json_obj |-> FALSE, log |-> [pd |-> NoCall, sg |-> NoCall]]

Finished(t) == t.pc \in {"returned", "raised"}

Running(t) == t.pc \in {"check", "request", "sleep"}

\* return data
Return(t, data) == [t EXCEPT !.pc = "returned", !.data = data]

\* The state after construction and "Start Extraction": the flag cleared, every input submitted.
InitWith(ins, loop) ==
    /\ stop_event = FALSE
    /\ retry_count \in 1..MaxRetry
    /\ max_workers \in 1..MaxWorkers
    /\ inputs = ins
    /\ tasks = [i \in 1..Len(ins) |-> QueuedTask]
    /\ main = loop
    /\ results = <<>>
    /\ yielded = {}
    /\ stop_pending = {}

\* ------------------------------------------------------------------------
\* request_stop
\* ------------------------------------------------------------------------
request_stop ==
    /\ ~stop_event
    /\ \E i \in Tasks : ~Finished(tasks[i])
    /\ stop_event' = TRUE
    /\ stop_pending' = {i \in Tasks : ~Finished(tasks[i])}
    /\ UNCHANGED <<retry_count, max_workers, inputs, tasks, main, results, yielded>>

\* ------------------------------------------------------------------------
\* extract_product and safe_get, one task
\* ------------------------------------------------------------------------
TaskStep(i, t) ==
    /\ tasks' = [tasks EXCEPT ![i] = t]
    /\ UNCHANGED <<stop_event, retry_count, max_workers, inputs, main, results, yielded, stop_pending>>

\* Entering safe_get for the call: the loop variable at 1, no request issued.
EnterSafeGet(t, call) ==
    [t EXCEPT !.pc = "check", !.call = call, !.attempt = 1, !.last_err = "None",
              !.log[call] = [NoCall EXCEPT !.outcome = "running"]]

\* A worker picks the task up: extract_product to the product-detail safe_get.
Begin(i) ==
    /\ tasks[i].pc = "queued"
    /\ Cardinality({j \in Tasks : Running(tasks[j])}) < max_workers
    /\ \A j \in Tasks : j < i => tasks[j].pc # "queued"
    /\ LET raw_input == Strip(inputs[i]) IN
       IF raw_input = ""
       THEN TaskStep(i, Return(tasks[i], EmptyInputRow(inputs[i])))
       ELSE TaskStep(i, EnterSafeGet([tasks[i] EXCEPT !.data = InitialRow(inputs[i], ProductId(raw_input))], "pd"))

\* safe_get raises text: extract_product's except branch of the call.
SafeGetRaised(t, outcome, text) ==
    LET t1 == [t EXCEPT !.log[t.call].outcome = outcome, !.log[t.call].text = text] IN
    IF t.call = "pd"
    THEN Return(t1, ErrorRow(t.data, text))
    ELSE Return([t1 EXCEPT !.sg_error = text], SizeGuideFailed(t.data, text))

\* if stop_event.is_set(): raise RuntimeError("Stopped by user")
SafeGetCheck(i) ==
    /\ tasks[i].pc = "check"
    /\ IF stop_event
       THEN TaskStep(i, SafeGetRaised(tasks[i], "stopped", "Stopped by user"))
       ELSE TaskStep(i, [tasks[i] EXCEPT !.pc = "request"])

\* requests.get raises: last_err = str(e)
RequestFails(i) ==
    /\ tasks[i].pc = "request"
    /\ \E e \in RequestErrors :
        TaskStep(i, [tasks[i] EXCEPT !.pc = "sleep", !.last_err = e,
                                     !.log[tasks[i].call].nreq = @ + 1,
                                     !.log[tasks[i].call].nfail = @ + 1])

\* A loop that runs one attempt too many.
RetriesExhaustedLate(attempt, count) == attempt > count + 1

\* Whether "for attempt in range(1, retry_count + 1)" is over.
RetriesExhausted(attempt, count) == attempt > count

FailedText(count, last_err) ==
    "Request failed after " \o ToString(count) \o " attempts. Last error: " \o last_err

\* time.sleep, then the next attempt or the final raise.
SafeGetSleep(i) ==
    /\ tasks[i].pc = "sleep"
    /\ LET t == [tasks[i] EXCEPT !.attempt = @ + 1] IN
       IF RetriesExhausted(t.attempt, retry_count)
       THEN TaskStep(i, SafeGetRaised(t, "failed", FailedText(retry_count, t.last_err)))
       ELSE TaskStep(i, [t EXCEPT !.pc = "check"])

\* safe_get returns res: the call's history.
SafeGetReturned(t) ==
    [t EXCEPT !.log[t.call].nreq = @ + 1, !.log[t.call].outcome = "returned"]

\* extract_product from the product-detail response to the size-guide call or the return.
AfterProductResponse(t, res) ==
    LET pr == ParseResponse(t.data, res) IN
    IF ~pr.ok THEN Return(t, pr.data)
    ELSE LET st == NormalExtraction(pr.data, pr.json_data)
             t1 == [t EXCEPT !.json_obj = IsObj(pr.json_data)]
         IN IF st.exc # "" THEN [t1 EXCEPT !.pc = "raised", !.exc = st.exc]
            ELSE IF HasSizeGuide(pr.json_data)
            THEN EnterSafeGet([t1 EXCEPT !.data = st.data, !.base = st.data], "sg")
            ELSE Return(t1, st.data)

\* requests.get returns the product-detail response.
ProductResponse(i, responses) ==
    /\ tasks[i].pc = "request"
    /\ tasks[i].call = "pd"
    /\ \E res \in responses : TaskStep(i, AfterProductResponse(SafeGetReturned(tasks[i]), res))

\* extract_product's size-guide step once safe_get returned res.
AfterSizeGuideResponse(t, res) ==
    LET sg == get_size_guide(res) IN
    IF sg.err # ""
    THEN Return([t EXCEPT !.sg_res = res.json, !.sg_error = sg.err], SizeGuideFailed(t.data, sg.err))
    ELSE Return([t EXCEPT !.sg_res = res.json, !.size_data = sg.final], SizeGuideMerged(t.data, sg.final))

\* requests.get returns the size-guide response.
SizeGuideResponse(i, responses) ==
    /\ tasks[i].pc = "request"
    /\ tasks[i].call = "sg"
    /\ \E res \in responses : TaskStep(i, AfterSizeGuideResponse(SafeGetReturned(tasks[i]), res))

\* ------------------------------------------------------------------------
\* The batch loop
\* ------------------------------------------------------------------------
\* One pass of "for fut in as_completed(futures)": the stop check, fut.result(), the append.
Collect(i) ==
    /\ main = "collect"
    /\ Finished(tasks[i])
    /\ i \notin yielded
    /\ yielded' = yielded \cup {i}
    /\ IF stop_event
       THEN main' = "exit_break" /\ results' = results
       ELSE IF tasks[i].pc = "raised"
       THEN main' = "exit_raise" /\ results' = results
       ELSE /\ results' = Append(results, tasks[i].data)
            /\ main' = IF yielded' = Tasks THEN "exit_loop" ELSE "collect"
    /\ UNCHANGED <<stop_event, retry_count, max_workers, inputs, tasks, stop_pending>>

\* The executor's __exit__: shutdown(wait=True) returns once every task has ended.
Shutdown ==
    /\ main \in {"exit_break", "exit_raise", "exit_loop"}
    /\ \A i \in Tasks : Finished(tasks[i])
    /\ main' = IF main = "exit_raise" THEN "crashed" ELSE "done"
    /\ UNCHANGED <<stop_event, retry_count, max_workers, inputs, tasks, results, yielded, stop_pending>>

\* ------------------------------------------------------------------------
\* Specifications
\* ------------------------------------------------------------------------
\* A batch: the inputs on the thread pool, the script's thread collecting.
Init == InitWith(BatchInputs, "collect")

Next ==
    \/ \E i \in Tasks : Begin(i)
    \/ \E i \in Tasks : SafeGetCheck(i)
    \/ \E i \in Tasks : RequestFails(i)
    \/ \E i \in Tasks : SafeGetSleep(i)
    \/ \E i \in Tasks : ProductResponse(i, BatchResponses)
    \/ \E i \in Tasks : SizeGuideResponse(i, SGFewResponses)
    \/ \E i \in Tasks : Collect(i)
    \/ Shutdown
    \/ request_stop

Spec == Init /\ [][Next]_vars

\* extract_product called on one input, over the product documents.
InitExtract == \E input \in ExtractInputs : InitWith(<<input>>, "direct")

NextExtract ==
    \/ \E i \in Tasks : Begin(i)
    \/ \E i \in Tasks : SafeGetCheck(i)
    \/ \E i \in Tasks : RequestFails(i)
    \/ \E i \in Tasks : SafeGetSleep(i)
    \/ \E i \in Tasks : ProductResponse(i, ProductResponses)
    \/ \E i \in Tasks : SizeGuideResponse(i, SGFewResponses)
    \/ request_stop

SpecExtract == InitExtract /\ [][NextExtract]_vars

\* extract_product called on one input whose document names a size guide,
\* over the size-guide documents.
InitSizeGuide == InitWith(<<"MP1">>, "direct")

NextSizeGuide ==
    \/ \E i \in Tasks : Begin(i)
    \/ \E i \in Tasks : SafeGetCheck(i)
    \/ \E i \in Tasks : RequestFails(i)
    \/ \E i \in Tasks : SafeGetSleep(i)
    \/ \E i \in Tasks : ProductResponse(i, {Response(200, TRUE, FALSE, SGProductDoc, "{...}")})
    \/ \E i \in Tasks : SizeGuideResponse(i, SGResponses)
    \/ request_stop

SpecSizeGuide == InitSizeGuide /\ [][NextSizeGuide]_vars

\* extract_product called on one input, its thread scheduled: safe_get's two calls.
InitSafeGet == InitWith(<<"MP1">>, "direct")

ThreadStep ==
    \/ \E i \in Tasks : Begin(i)
    \/ \E i \in Tasks : SafeGetCheck(i)
    \/ \E i \in Tasks : RequestFails(i)
    \/ \E i \in Tasks : SafeGetSleep(i)
    \/ \E i \in Tasks : ProductResponse(i, BatchResponses)
    \/ \E i \in Tasks : SizeGuideResponse(i, SGFewResponses)

NextSafeGet ==
    \/ ThreadStep
    \/ request_stop

SpecSafeGet == InitSafeGet /\ [][NextSafeGet]_vars /\ WF_vars(ThreadStep)

\* ------------------------------------------------------------------------
\* Properties
\* ------------------------------------------------------------------------
\* The row of results that carries the input of task i, if any.
RowsOf(i) == {k \in 1..Len(results) : "Input" \in DOMAIN results[k] /\ results[k]["Input"] = JStr(inputs[i])}

IsErrorRow(row) ==
    /\ "blocked" \in DOMAIN row /\ row["blocked"] = JBool(TRUE)
    /\ "Error" \in DOMAIN row /\ IsStr(row["Error"]) /\ row["Error"].str # ""

\* C1: when a batch run that was not stopped has ended, results holds exactly
\* one row per input, and the row of every item whose product-detail fetch
\* raised is an error row (blocked = True, a non-empty Error).
C1_OneRowPerInput ==
    (main \in {"done", "crashed"} /\ ~stop_event) =>
        /\ Len(results) = Len(inputs)
        /\ \A i \in Tasks :
            /\ Cardinality(RowsOf(i)) = 1
            /\ tasks[i].log.pd.outcome = "failed" => \A k \in RowsOf(i) : IsErrorRow(results[k])

\* C2: extract_product raises nothing once the fetched document parsed as a
\* JSON object, whatever its fields are.
C2_NeverRaises ==
    \A i \in Tasks : tasks[i].json_obj => tasks[i].pc # "raised"

\* C3: when a batch has ended after the stop flag was set, every item that
\* was unfinished when the flag was set has a "Stopped by user" error row in
\* results.
C3_StoppedRows ==
    main \in {"done", "crashed"} =>
        /\ main = "done"
        /\ \A i \in stop_pending :
            \E k \in RowsOf(i) : IsErrorRow(results[k]) /\ results[k]["Error"] = JStr("Stopped by user")

\* The values a size-guide document lists for a dimension in one size entry.
DocDimValues(dimlist, d) ==
    LET sel == SelectSeq(dimlist, LAMBDA e : e.obj["dimension"] = JStr(d)) IN
    [k \in 1..Len(sel) |-> sel[k].obj["dimensionValue"]]

\* The values a unit map lists for a dimension, size entry after size entry.
RECURSIVE DocSizeSeries(_, _)
DocSizeSeries(sizes, d) ==
    IF sizes = <<>> THEN <<>>
    ELSE DocDimValues(Head(sizes).obj["dimensionList"].list, d) \o DocSizeSeries(Tail(sizes), d)

\* The series of a dimension in a unit: its values in document order.
RECURSIVE DocSeries(_, _, _)
DocSeries(units, unit, d) ==
    IF units = <<>> THEN <<>>
    ELSE (IF Head(units).obj["displaytext"] = JStr(unit)
          THEN DocSizeSeries(Head(units).obj["sizeGuideList"].list, d) ELSE <<>>)
         \o DocSeries(Tail(units), unit, d)

\* The size labels of the entries that gave the series its values, in order.
RECURSIVE DocSizeLabels(_, _)
DocSizeLabels(sizes, d) ==
    IF sizes = <<>> THEN <<>>
    ELSE [k \in 1..Len(DocDimValues(Head(sizes).obj["dimensionList"].list, d)) |-> Head(sizes).obj["dimensionSize"]]
         \o DocSizeLabels(Tail(sizes), d)

RECURSIVE DocSeriesLabels(_, _, _)
DocSeriesLabels(units, unit, d) ==
    IF units = <<>> THEN <<>>
    ELSE (IF Head(units).obj["displaytext"] = JStr(unit)
          THEN DocSizeLabels(Head(units).obj["sizeGuideList"].list, d) ELSE <<>>)
         \o DocSeriesLabels(Tail(units), unit, d)

DimensionNames == {"Chest", "Waist"}

\* The task's size-guide step got a table from get_size_guide.
SizeGuideBuilt(t) == t.pc = "returned" /\ t.log.sg.outcome = "returned" /\ t.sg_error = ""

UnitListOf(t) == t.sg_res.obj["sizeGuideTabularWsData"].obj["unitList"].list

\* The reconciliation rule for one dimension of the document, on the table.
ReconciledAsClaimed(final, cm, inch, d) ==
    IF cm = inch
    THEN /\ d \in DOMAIN final /\ final[d] = JList(cm)
         /\ (d \o " ( Cm )") \notin DOMAIN final
         /\ (d \o " ( Inches )") \notin DOMAIN final
    ELSE /\ (d \o " ( Cm )") \in DOMAIN final <=> cm # <<>>
         /\ cm # <<>> => final[d \o " ( Cm )"] = JList(cm)
         /\ (d \o " ( Inches )") \in DOMAIN final <=> inch # <<>>
         /\ inch # <<>> => final[d \o " ( Inches )"] = JList(inch)
         /\ d \notin DOMAIN final

\* C4: in the table get_size_guide returns, a dimension whose centimeter and
\* inch series are equal has one column, named by the dimension, holding the
\* centimeter series; any other dimension has a "( Cm )" column iff its
\* centimeter series is non-empty and an "( Inches )" column iff its inch
\* series is non-empty, each holding its unit's series, and no unlabeled column.
C4_Reconciliation ==
    \A i \in Tasks : SizeGuideBuilt(tasks[i]) =>
        \A d \in DimensionNames :
            LET cm == DocSeries(UnitListOf(tasks[i]), "Cm", d)
                inch == DocSeries(UnitListOf(tasks[i]), "In", d)
            IN (cm # <<>> \/ inch # <<>>) => ReconciledAsClaimed(tasks[i].size_data, cm, inch, d)

\* A table with Waist reconciled to one column and Chest split in two.
C4_Witness ==
    \E i \in Tasks :
        /\ SizeGuideBuilt(tasks[i])
        /\ DocSeries(UnitListOf(tasks[i]), "Cm", "Waist") # <<>>
        /\ DocSeries(UnitListOf(tasks[i]), "Cm", "Waist") = DocSeries(UnitListOf(tasks[i]), "In", "Waist")
        /\ DocSeries(UnitListOf(tasks[i]), "Cm", "Chest") # <<>>
        /\ DocSeries(UnitListOf(tasks[i]), "In", "Chest") # <<>>
        /\ DocSeries(UnitListOf(tasks[i]), "Cm", "Chest") # DocSeries(UnitListOf(tasks[i]), "In", "Chest")

\* The task's size-guide step failed: the fetch raised, the flag was set, or
\* the document could not be parsed or lacked a key.
SizeGuideStepFailed(t) == t.pc = "returned" /\ t.log.sg.outcome # "none" /\ t.sg_error # ""

\* C5 (as claimed): a failed size-guide step adds no column at all: the row
\* is the row built without the size guide.
C5_NoColumnAdded ==
    \A i \in Tasks : SizeGuideStepFailed(tasks[i]) => tasks[i].data = tasks[i].base

\* C5 (amended): a failed size-guide step sets the column SizeGuide_Error to
\* the error text and nothing else: every other column of the row, blocked
\* and Error among them, is as it was before the step.
C5_OnlySizeGuideError ==
    \A i \in Tasks : SizeGuideStepFailed(tasks[i]) =>
        /\ DOMAIN tasks[i].data = (DOMAIN tasks[i].base) \cup {"SizeGuide_Error"}
        /\ tasks[i].data["SizeGuide_Error"] = JStr(tasks[i].sg_error)
        /\ \A c \in (DOMAIN tasks[i].base) \ {"SizeGuide_Error"} : tasks[i].data[c] = tasks[i].base[c]

\* A row whose size-guide document was fetched and lacked the expected keys,
\* the row not failed.
C5_Witness ==
    \E i \in Tasks :
        /\ SizeGuideStepFailed(tasks[i])
        /\ tasks[i].log.sg.outcome = "returned"
        /\ tasks[i].sg_error = "'sizeGuideTabularWsData'"
        /\ tasks[i].data["blocked"] = JBool(FALSE)

\* C6: every row extract_product returns carries the column Input, holding
\* the input value passed in.
C6_InputKept ==
    \A i \in Tasks : tasks[i].pc = "returned" =>
        "Input" \in DOMAIN tasks[i].data /\ tasks[i].data["Input"] = JStr(inputs[i])

\* The fixed substring convention yields no identifier: a tatacliq.com URL
\* without "/p-", or with nothing after it.
NoIdentifier(raw) ==
    /\ Contains(raw, "tatacliq.com")
    /\ \/ ~Contains(raw, "/p-")
       \/ SubSeq(raw, Len(raw) - 2, Len(raw)) = "/p-"

\* C7: for an input from which no identifier can be derived, no
\* product-detail fetch is issued and the row returned is an error row.
C7_NoFetchWithoutIdentifier ==
    \A i \in Tasks : NoIdentifier(Strip(inputs[i])) =>
        /\ tasks[i].log.pd.nreq = 0
        /\ tasks[i].pc = "returned" => IsErrorRow(tasks[i].data)

\* C8: in the table get_size_guide returns, every series of the document has
\* the length of the Brand Size list and its i-th value comes from the
\* i-th brand size.
C8_SeriesAligned ==
    \A i \in Tasks : SizeGuideBuilt(tasks[i]) =>
        \A d \in DimensionNames : \A u \in {"Cm", "In"} :
            DocSeries(UnitListOf(tasks[i]), u, d) # <<>> =>
                /\ Len(DocSeries(UnitListOf(tasks[i]), u, d)) = Len(tasks[i].size_data["Brand Size"].list)
                /\ DocSeriesLabels(UnitListOf(tasks[i]), u, d) = tasks[i].size_data["Brand Size"].list

Calls == {"pd", "sg"}

Ended(call) == call.outcome \in {"returned", "stopped", "failed"}

\* safe_get's calls in every state: the attempts bounded, each end as claimed.
C9_Calls ==
    \A i \in Tasks : \A c \in Calls :
        LET call == tasks[i].log[c] IN
        /\ call.nreq <= retry_count
        /\ call.outcome = "returned" => call.nreq = call.nfail + 1
        /\ call.outcome = "stopped" =>
            stop_event /\ call.nreq = call.nfail /\ call.nreq < retry_count /\ call.text = "Stopped by user"
        /\ call.outcome = "failed" =>
            /\ call.nreq = retry_count /\ call.nfail = retry_count
            /\ call.text = "Request failed after " \o ToString(retry_count) \o " attempts. Last error: "
                                \o tasks[i].last_err
        /\ (call.outcome = "running" /\ call.nfail = retry_count) => tasks[i].pc = "sleep"

\* safe_get's steps: a request is issued only after a check that found the
\* flag unset, a check that finds it set raises without a request, and an
\* ended call issues nothing more.
C9_Steps ==
    \A i \in Tasks : \A c \in Calls :
        LET call == tasks[i].log[c]
            call2 == tasks'[i].log[c]
        IN /\ Ended(call) => call2 = call
           /\ call2.nreq > call.nreq => (tasks[i].pc = "request" /\ call2.nreq = call.nreq + 1)
           /\ (tasks'[i].pc = "request" /\ tasks[i].pc # "request") => (tasks[i].pc = "check" /\ ~stop_event)
           /\ (tasks[i].pc = "check" /\ tasks[i].call = c /\ stop_event /\ tasks'[i] # tasks[i]) =>
                (call2.outcome = "stopped" /\ call2.nreq = call.nreq)

\* C9: safe_get issues at most retry_count requests, returns the first
\* response without a further attempt, checks the stop flag before each
\* attempt and raises "Stopped by user" without a request when it is set,
\* raises "Request failed after N attempts" once retry_count attempts
\* failed, and ends whenever its thread keeps running.
C9_SafeGet ==
    /\ []C9_Calls
    /\ [][C9_Steps]_vars
    /\ Running(tasks[1]) ~> Finished(tasks[1])

\* A call that failed retry_count times and raised, after a first call that returned.
C9_Witness ==
    \E i \in Tasks :
        /\ tasks[i].log.pd.outcome = "returned"
        /\ tasks[i].log.pd.nfail >= 1
        /\ tasks[i].log.sg.outcome = "failed"
        /\ retry_count = MaxRetry

\* C10: in every row extract_product returns for a non-empty input, blocked
\* is True with a non-empty Error when the fetch, the parse or the format
\* failed, and False with Error = "" when the normal extraction ran.
C10_BlockedMatchesError ==
    \A i \in Tasks : (tasks[i].pc = "returned" /\ Strip(inputs[i]) # "") =>
        LET row == tasks[i].data IN
        /\ "blocked" \in DOMAIN row /\ "Error" \in DOMAIN row
        /\ IF tasks[i].json_obj
           THEN row["blocked"] = JBool(FALSE) /\ row["Error"] = JStr("")
           ELSE IsErrorRow(row)
====
